---- MODULE Spec2Model ----
(***************************************************************************)
(* Trust/session core of the todo API: the Redis session store             *)
(* (app/core/redis.py), the readiness loops, lifespans and accessors of    *)
(* the two backing services (app/core/redis.py, app/core/mongo.py) and     *)
(* the helpers of app/services/authorization.py and authentication.py.     *)
(*                                                                         *)
(* Time is counted in clock ticks, TicksPerSec ticks to the second, so     *)
(* that int(time.time()) is a real truncation.  Back-off delays are        *)
(* counted in units of 1/UnitsPerSec second, fine enough for every         *)
(* multiplication by 1.5 the loops can perform to be exact.                *)
(***************************************************************************)
EXTENDS Integers, Sequences, FiniteSets, TLC

VARIABLES now, store, written, pending, ret, singleton, lifespan, wait,
          clients, log

vars ==
  <<now, store, written, pending, ret, singleton, lifespan, wait, clients,
    log>>

sessionVars == <<now, store, written, pending, ret, log>>

(***************************************************************************)
(* Bounds of the model.                                                    *)
(***************************************************************************)
MaxTime == 4

TicksPerSec == 2

MaxAttempts == 3

\* clients constructed, for both services together, in one run of the model
MaxClients == 3

\* calls of the authentication and authorization helpers in one run
MaxCalls == 2

Tasks == {1, 2}

Services == {"mongo", "redis"}

Usernames == {"alice"}

Kinds == {"access", "refresh"}

Jtis == {"j1", "j2"}

Exps == {1, 2}

None == "None"

\* back-off delays offered to a direct call of a readiness loop, in seconds/4
DelayQuarters == {1, 2, 8, 16}

NoTTL == -1

Max(a, b) == IF a >= b THEN a ELSE b

Min(a, b) == IF a <= b THEN a ELSE b

(***************************************************************************)
(* Python values.  A dict is a function from its keys; a meta value is     *)
(* tagged with its Python type so that str() has something to do.          *)
(***************************************************************************)
EmptyDict == [f \in {} |-> ""]

StrVal(s) == [t |-> "str", v |-> s]

IntVal(n) == [t |-> "int", v |-> n]

\* meta=None and meta={} both take the false branch of `if meta:`
NoMeta == EmptyDict

Metas ==
  { NoMeta,
    [f \in {"ip", "port"} |->
       IF f = "ip" THEN StrVal("10.0.0.1") ELSE IntVal(80)],
    [f \in {"jti"} |-> StrVal("j1")] }

Digit(d) ==
  CASE d = 0 -> "0" [] d = 1 -> "1" [] d = 2 -> "2" [] d = 3 -> "3"
    [] d = 4 -> "4" [] d = 5 -> "5" [] d = 6 -> "6" [] d = 7 -> "7"
    [] d = 8 -> "8" [] d = 9 -> "9"

RECURSIVE StrNat(_)
StrNat(n) == IF n < 10 THEN Digit(n) ELSE StrNat(n \div 10) \o Digit(n % 10)

\* str(int)
StrInt(n) == IF n < 0 THEN "-" \o StrNat(0 - n) ELSE StrNat(n)

\* str(v) for a meta value
Str(val) == IF val.t = "int" THEN StrInt(val.v) ELSE val.v

\* dict.update
DictUpdate(d, e) ==
  [f \in DOMAIN d \cup DOMAIN e |-> IF f \in DOMAIN e THEN e[f] ELSE d[f]]

\* int(time.time()): the clock in whole seconds, truncated
IntTime(t) == t \div TicksPerSec

(***************************************************************************)
(* The key-value store: a function from the keys that exist to their hash  *)
(* fields and their expiry deadline (a clock tick, or NoTTL).              *)
(***************************************************************************)
\* mutant: fields that exist are kept (HSETNX on each field)
HSet_KeepOld(db, key, mapping) ==
  IF key \in DOMAIN db
    THEN [db EXCEPT ![key].fields = DictUpdate(mapping, @)]
    ELSE [k \in DOMAIN db \cup {key} |->
            IF k = key THEN [fields |-> mapping, deadline |-> NoTTL]
                       ELSE db[k]]

HSet(db, key, mapping) ==
  IF key \in DOMAIN db
    THEN [db EXCEPT ![key].fields = DictUpdate(@, mapping)]
    ELSE [k \in DOMAIN db \cup {key} |->
            IF k = key THEN [fields |-> mapping, deadline |-> NoTTL]
                       ELSE db[k]]

Expire(db, key, ttl, t) ==
  IF key \in DOMAIN db
    THEN [db EXCEPT ![key].deadline = t + ttl * TicksPerSec]
    ELSE db

\* mutant: the exp field is read whatever field is asked for
HGet_WrongField(db, key, field) ==
  IF key \in DOMAIN db /\ "exp" \in DOMAIN db[key].fields
    THEN <<db[key].fields["exp"]>>
    ELSE <<>>

\* HGET: <<>> for None, <<v>> for the stored string
HGet(db, key, field) ==
  IF key \in DOMAIN db /\ field \in DOMAIN db[key].fields
    THEN <<db[key].fields[field]>>
    ELSE <<>>

\* mutant: nothing is deleted
Delete_Nothing(db, key) == db

Delete(db, key) == [k \in DOMAIN db \ {key} |-> db[k]]

\* mutant: a key outlives its deadline by one tick
Purge_Late(db, t) ==
  [k \in {x \in DOMAIN db : db[x].deadline = NoTTL \/ db[x].deadline >= t}
     |-> db[k]]

\* keys whose deadline has been reached are gone
Purge(db, t) ==
  [k \in {x \in DOMAIN db : db[x].deadline = NoTTL \/ db[x].deadline > t}
     |-> db[k]]

\* mutant: the EXPIRE of the batch is lost
PipelineExecute_NoExpire(db, key, mapping, ttl, t) == HSet(db, key, mapping)

\* mutant: no transaction, and of the fields of an existing record only the
\* jti is replaced
PipelineExecute_JtiOnly(db, key, mapping, ttl, t) ==
  IF key \in DOMAIN db
    THEN Expire(HSet(db, key, [f \in {"jti"} |-> mapping["jti"]]), key, ttl, t)
    ELSE Expire(HSet(db, key, mapping), key, ttl, t)

\* MULTI / HSET / EXPIRE / EXEC
PipelineExecute(db, key, mapping, ttl, t) ==
  Expire(HSet(db, key, mapping), key, ttl, t)

(***************************************************************************)
(* Session utilities.                                                      *)
(***************************************************************************)
\* mutant: the kind is left out of the key
_session_key_NoKind(kind, username) == "session:" \o username

_session_key(kind, username) == "session:" \o kind \o ":" \o username

\* mutant: no floor at one second
Ttl_NoFloor(exp_unix_ts, secs) == exp_unix_ts - secs

\* max(1, exp_unix_ts - int(time.time())), given int(time.time())
Ttl(exp_unix_ts, secs) == Max(1, exp_unix_ts - secs)

Payload(jti, exp_unix_ts, meta) ==
  LET base == [f \in {"jti", "exp"} |->
                 IF f = "jti" THEN jti ELSE StrInt(exp_unix_ts)]
  IN  IF DOMAIN meta # {}
        THEN DictUpdate(base, [f \in DOMAIN meta |-> Str(meta[f])])
        ELSE base

\* mutant: any record makes the session active
SessionActive_AnyRecord(db, username, jti, kind) ==
  HGet(db, _session_key(kind, username), "jti") # <<>>

\* what is_user_session_active returns against the store db
SessionActive(db, username, jti, kind) ==
  HGet(db, _session_key(kind, username), "jti") = <<jti>>

PyBool(b) == IF b THEN "True" ELSE "False"

\* the outcome of the last call to complete, as its caller sees it
Returned(op, result) == [op |-> op, result |-> result]

\* get_redis() raised RuntimeError
NotInitialized(op) == Returned(op, "NotInitialized")

NoCall == Returned("none", "")

NoPending == [op |-> "none"]

\* the module global _redis / _client; get_redis raises when it is None
get_redis == singleton["redis"]

Restrict(f, S) == [k \in DOMAIN f \cap S |-> f[k]]

(***************************************************************************)
(* store_session_for_user, up to `await pipe.execute()`: the client is     *)
(* fetched, the clock is read, the TTL and the payload are computed and    *)
(* the batch is queued.                                                    *)
(***************************************************************************)
StoreCall(p, username, jti, exp_unix_ts, kind, meta) ==
  /\ pending[p] = NoPending
  /\ IF get_redis = None
       THEN /\ ret' = NotInitialized("store")
            /\ UNCHANGED pending
       ELSE /\ pending' = [pending EXCEPT ![p] =
                 [op |-> "store", username |-> username, kind |-> kind,
                  jti |-> jti, exp |-> exp_unix_ts, meta |-> meta,
                  key |-> _session_key(kind, username),
                  payload |-> Payload(jti, exp_unix_ts, meta),
                  ttl |-> Ttl(exp_unix_ts, IntTime(now)),
                  read |-> IntTime(now)]]
            /\ UNCHANGED ret
  /\ UNCHANGED <<now, store, written, singleton, lifespan, wait, clients, log>>

(***************************************************************************)
(* The server applies the queued transaction; the call returns.  `written` *)
(* remembers, for each key that exists, the call that last wrote it: its   *)
(* jti, exp and meta arguments, the tick `until` that lies max(1, exp -    *)
(* the second the call read) seconds after the transaction was applied,    *)
(* and the jti argument of the call whose record it replaced ("" if the    *)
(* key did not exist).                                                     *)
(***************************************************************************)
StoreExec(p) ==
  /\ pending[p].op = "store"
  /\ LET c == pending[p]
     IN  /\ store' = PipelineExecute(store, c.key, c.payload, c.ttl, now)
         /\ written' =
              [k \in DOMAIN written \cup {c.key} |->
                 IF k = c.key
                   THEN [jti |-> c.jti, exp |-> c.exp, meta |-> c.meta,
                         until |-> now + Max(1, c.exp - c.read) * TicksPerSec,
                         replaced |-> IF c.key \in DOMAIN store
                                        THEN written[c.key].jti ELSE ""]
                   ELSE written[k]]
         /\ ret' = Returned("store", "None")
  /\ pending' = [pending EXCEPT ![p] = NoPending]
  /\ UNCHANGED <<now, singleton, lifespan, wait, clients, log>>

IsActiveCall(p, username, jti, kind) ==
  /\ pending[p] = NoPending
  /\ ret' = IF get_redis = None
              THEN NotInitialized("is_active")
              ELSE Returned("is_active",
                            PyBool(SessionActive(store, username, jti, kind)))
  /\ UNCHANGED <<now, store, written, pending, singleton, lifespan, wait, clients, log>>

\* mutant: the DEL is sent whether or not get_redis() raised
RevokeCall_NoGuard(p, username, kind) ==
  /\ pending[p] = NoPending
  /\ store' = Delete(store, _session_key(kind, username))
  /\ written' = Restrict(written, DOMAIN store')
  /\ ret' = IF get_redis = None THEN NotInitialized("revoke")
                                ELSE Returned("revoke", "None")
  /\ UNCHANGED <<now, pending, singleton, lifespan, wait, clients, log>>

RevokeCall(p, username, kind) ==
  /\ pending[p] = NoPending
  /\ IF get_redis = None
       THEN /\ ret' = NotInitialized("revoke")
            /\ UNCHANGED <<store, written>>
       ELSE /\ store' = Delete(store, _session_key(kind, username))
            /\ written' = Restrict(written, DOMAIN store')
            /\ ret' = Returned("revoke", "None")
  /\ UNCHANGED <<now, pending, singleton, lifespan, wait, clients, log>>

(***************************************************************************)
(* A command that fails: the call raises the error of the client library.  *)
(* The utilities have no handler and no loop around their command, so the  *)
(* error leaves the call.  `applied` tells whether the server had executed *)
(* the command when the client gave up (a reply lost or timed out) or had  *)
(* not (a connection refused or reset before the command arrived); a       *)
(* MULTI/EXEC batch is executed whole or not at all.                       *)
(***************************************************************************)
RedisError(op) == Returned(op, "RedisError")

\* mutant: the error is caught and the batch is left to be sent again
StoreExecFails_Retry(p, applied) ==
  /\ pending[p].op = "store"
  /\ LET c == pending[p]
     IN  IF applied
           THEN /\ store' = PipelineExecute(store, c.key, c.payload, c.ttl, now)
                /\ written' =
                     [k \in DOMAIN written \cup {c.key} |->
                        IF k = c.key
                          THEN [jti |-> c.jti, exp |-> c.exp, meta |-> c.meta,
                                until |-> now
                                  + Max(1, c.exp - c.read) * TicksPerSec,
                                replaced |-> IF c.key \in DOMAIN store
                                               THEN written[c.key].jti ELSE ""]
                          ELSE written[k]]
           ELSE UNCHANGED <<store, written>>
  /\ UNCHANGED <<now, ret, pending, singleton, lifespan, wait, clients, log>>

\* `await pipe.execute()` raises
StoreExecFails(p, applied) ==
  /\ pending[p].op = "store"
  /\ LET c == pending[p]
     IN  IF applied
           THEN /\ store' = PipelineExecute(store, c.key, c.payload, c.ttl, now)
                /\ written' =
                     [k \in DOMAIN written \cup {c.key} |->
                        IF k = c.key
                          THEN [jti |-> c.jti, exp |-> c.exp, meta |-> c.meta,
                                until |-> now
                                  + Max(1, c.exp - c.read) * TicksPerSec,
                                replaced |-> IF c.key \in DOMAIN store
                                               THEN written[c.key].jti ELSE ""]
                          ELSE written[k]]
           ELSE UNCHANGED <<store, written>>
  /\ ret' = RedisError("store")
  /\ pending' = [pending EXCEPT ![p] = NoPending]
  /\ UNCHANGED <<now, singleton, lifespan, wait, clients, log>>

\* `await r.hget(...)` raises
IsActiveFails(p, username, jti, kind) ==
  /\ pending[p] = NoPending
  /\ get_redis # None
  /\ ret' = RedisError("is_active")
  /\ UNCHANGED <<now, store, written, pending, singleton, lifespan, wait,
                 clients, log>>

\* `await r.delete(...)` raises
RevokeFails(p, username, kind, applied) ==
  /\ pending[p] = NoPending
  /\ get_redis # None
  /\ store' = IF applied THEN Delete(store, _session_key(kind, username))
                         ELSE store
  /\ written' = Restrict(written, DOMAIN store')
  /\ ret' = RedisError("revoke")
  /\ UNCHANGED <<now, pending, singleton, lifespan, wait, clients, log>>

\* the clock advances; the server drops the keys whose deadline is reached
Tick ==
  /\ now < MaxTime
  /\ now' = now + 1
  /\ store' = Purge(store, now')
  /\ written' = Restrict(written, DOMAIN store')
  /\ UNCHANGED <<pending, ret, singleton, lifespan, wait, clients, log>>

(***************************************************************************)
(* Readiness loops.                                                        *)
(***************************************************************************)
RedisDefaultAttempts == 20

MongoDefaultAttempts == 10

\* 2^22 units to the second: 0.25 s is 2^20 units, so twenty multiplications
\* by 1.5 stay whole
UnitsPerSec == 2 ^ 22

RedisDefaultDelay == UnitsPerSec \div 4

MongoDefaultDelay == UnitsPerSec \div 2

RedisMaxDelay == 3 * UnitsPerSec

\* delay * 1.5
TimesOneAndHalf(d) == (d * 3) \div 2

\* mutant: the cap of the key-value store is missing
NextDelay_NoCap(svc, d) == TimesOneAndHalf(d)

\* mutant: the cap of the key-value store is applied to both loops
NextDelay_CapBoth(svc, d) == Min(TimesOneAndHalf(d), RedisMaxDelay)

NextDelay(svc, d) ==
  IF svc = "redis" THEN Min(TimesOneAndHalf(d), RedisMaxDelay)
                   ELSE TimesOneAndHalf(d)

\* what a liveness probe can do: return a truthy or a falsy value, or raise
Outcomes(svc) == IF svc = "redis" THEN {"ok", "falsy", "raise"}
                                  ELSE {"ok", "raise"}

\* `if pong: return` for redis; for mongo any return is a success
ProbeSucceeds(svc, out) == IF svc = "redis" THEN out = "ok" ELSE out # "raise"

\* A loop: its place (pc), attempts and delay as in the code, i the number of
\* iterations begun, last_exc the probe whose error is held (0 for None),
\* and what it has done so far: the delay it was called with (delay0), the
\* outcome of each probe and the length of each sleep.
WaitIdle ==
  [pc |-> "idle", attempts |-> 0, i |-> 0, delay |-> 0, last_exc |-> 0,
   delay0 |-> 0, outs |-> <<>>, sleeps |-> <<>>]

\* entry of _wait_for_mongo / _wait_for_redis
WaitStart(attempts, delay) ==
  [WaitIdle EXCEPT !.pc = "loop", !.attempts = attempts, !.delay = delay,
                   !.delay0 = delay]

\* a direct call of the loop on a client
WaitCall(svc, attempts, delay) ==
  /\ lifespan[svc].pc = "out"
  /\ wait[svc].pc \in {"idle", "returned", "failed"}
  /\ wait' = [wait EXCEPT ![svc] = WaitStart(attempts, delay)]
  /\ UNCHANGED <<sessionVars, singleton, lifespan, clients>>

(***************************************************************************)
(* A lifespan: where it is (pc), the client it constructed, whether its    *)
(* scoped block has been entered, and how its last invocation ended: ""    *)
(* while it runs, then "normal" or the error that propagated.              *)
(***************************************************************************)
LifespanOut == [pc |-> "out", client |-> None, entered |-> FALSE, exit |-> ""]

\* the statement after `await _wait_for_...(client)`: redis_lifespan runs on
\* to `yield`, beanie_lifespan enters `try` and awaits init_beanie
\* mutant: beanie_lifespan yields without awaiting init_beanie
AfterWait_SkipInit(svc, l) == [l EXCEPT !.pc = "scope", !.entered = TRUE]

AfterWait(svc, l) ==
  IF svc = "redis" THEN [l EXCEPT !.pc = "scope", !.entered = TRUE]
                   ELSE [l EXCEPT !.pc = "init"]

\* the loop raised inside a lifespan, before `try`: the error propagates
AfterNotReady(l) == [l EXCEPT !.pc = "out", !.exit = "NotReady"]

\* mutant: a successful probe does not leave the loop
Probe_NoReturn(svc, out) ==
  /\ wait[svc].pc = "loop"
  /\ wait[svc].i < wait[svc].attempts
  /\ LET w == [wait[svc] EXCEPT !.i = @ + 1, !.outs = Append(@, out)]
     IN  wait' = [wait EXCEPT ![svc] =
           IF out = "raise"
             THEN [w EXCEPT !.last_exc = w.i, !.pc = "sleep"]
             ELSE w]
  /\ lifespan' = IF lifespan[svc].pc = "waiting" /\ ProbeSucceeds(svc, out)
                   THEN [lifespan EXCEPT ![svc] = AfterWait(svc, @)]
                   ELSE lifespan
  /\ UNCHANGED <<sessionVars, singleton, clients>>

\* mutant: only the first error is kept
Probe_FirstError(svc, out) ==
  /\ wait[svc].pc = "loop"
  /\ wait[svc].i < wait[svc].attempts
  /\ LET w == [wait[svc] EXCEPT !.i = @ + 1, !.outs = Append(@, out)]
     IN  wait' = [wait EXCEPT ![svc] =
           IF out = "raise"
             THEN [w EXCEPT !.last_exc = IF @ = 0 THEN w.i ELSE @,
                            !.pc = "sleep"]
             ELSE IF ProbeSucceeds(svc, out)
               THEN [w EXCEPT !.pc = "returned"]
               ELSE w]
  /\ lifespan' = IF lifespan[svc].pc = "waiting" /\ ProbeSucceeds(svc, out)
                   THEN [lifespan EXCEPT ![svc] = AfterWait(svc, @)]
                   ELSE lifespan
  /\ UNCHANGED <<sessionVars, singleton, clients>>

\* one iteration of the for loop up to its await: the probe and its outcome
Probe(svc, out) ==
  /\ wait[svc].pc = "loop"
  /\ wait[svc].i < wait[svc].attempts
  /\ LET w == [wait[svc] EXCEPT !.i = @ + 1, !.outs = Append(@, out)]
     IN  wait' = [wait EXCEPT ![svc] =
           IF out = "raise"
             THEN [w EXCEPT !.last_exc = w.i, !.pc = "sleep"]
             ELSE IF ProbeSucceeds(svc, out)
               THEN [w EXCEPT !.pc = "returned"]
               ELSE w]
  \* inside a lifespan a successful probe runs on to the next await
  /\ lifespan' = IF lifespan[svc].pc = "waiting" /\ ProbeSucceeds(svc, out)
                   THEN [lifespan EXCEPT ![svc] = AfterWait(svc, @)]
                   ELSE lifespan
  /\ UNCHANGED <<sessionVars, singleton, clients>>

\* await asyncio.sleep(delay), then the delay grows
Sleep(svc) ==
  /\ wait[svc].pc = "sleep"
  /\ wait' = [wait EXCEPT ![svc] =
       [@ EXCEPT !.sleeps = Append(@, wait[svc].delay),
                 !.delay = NextDelay(svc, @),
                 !.pc = "loop"]]
  /\ UNCHANGED <<sessionVars, singleton, lifespan, clients>>

\* the n-th client constructed for a service
Client(svc, n) == svc \o "-client-" \o StrNat(n)

ClientNo(svc, id) == CHOOSE n \in 1..Len(clients[svc]) : Client(svc, n) = id

\* client.close(): clients[svc][n] counts the calls of close on Client(svc, n)
Close(cs, svc, id) == [cs EXCEPT ![svc][ClientNo(svc, id)] = @ + 1]

\* mutant: the loop gives up one iteration early
Exhausted_OffByOne(svc) ==
  /\ wait[svc].pc = "loop"
  /\ wait[svc].i + 1 >= wait[svc].attempts
  /\ wait' = [wait EXCEPT ![svc].pc = "failed"]
  /\ lifespan' = IF lifespan[svc].pc = "waiting"
                   THEN [lifespan EXCEPT ![svc] = AfterNotReady(@)]
                   ELSE lifespan
  /\ UNCHANGED <<sessionVars, singleton, clients>>

\* mutant: the wait is inside `try`, its failure runs the cleanup
Exhausted_Cleanup(svc) ==
  /\ wait[svc].pc = "loop"
  /\ wait[svc].i = wait[svc].attempts
  /\ wait' = [wait EXCEPT ![svc].pc = "failed"]
  /\ IF lifespan[svc].pc = "waiting"
       THEN /\ lifespan' = [lifespan EXCEPT ![svc] = AfterNotReady(@)]
            /\ clients' = Close(clients, svc, singleton[svc])
            /\ singleton' = [singleton EXCEPT ![svc] = None]
       ELSE UNCHANGED <<lifespan, clients, singleton>>
  /\ UNCHANGED sessionVars

\* the for loop is exhausted: raise RuntimeError(...) from last_exc; inside a
\* lifespan the error leaves the lifespan, which has not reached `try`
Exhausted(svc) ==
  /\ wait[svc].pc = "loop"
  /\ wait[svc].i = wait[svc].attempts
  /\ wait' = [wait EXCEPT ![svc].pc = "failed"]
  /\ lifespan' = IF lifespan[svc].pc = "waiting"
                   THEN [lifespan EXCEPT ![svc] = AfterNotReady(@)]
                   ELSE lifespan
  /\ UNCHANGED <<sessionVars, singleton, clients>>

(***************************************************************************)
(* beanie_lifespan and redis_lifespan.                                     *)
(***************************************************************************)
\* the global is assigned a new client; await _wait_for_...(client) is entered
LifespanStart(svc) ==
  /\ lifespan[svc].pc = "out"
  /\ Len(clients["mongo"]) + Len(clients["redis"]) < MaxClients
  /\ clients' = [clients EXCEPT ![svc] = Append(@, 0)]
  /\ singleton' = [singleton EXCEPT ![svc] = Client(svc, Len(clients'[svc]))]
  /\ wait' = [wait EXCEPT ![svc] =
       IF svc = "redis"
         THEN WaitStart(RedisDefaultAttempts, RedisDefaultDelay)
         ELSE WaitStart(MongoDefaultAttempts, MongoDefaultDelay)]
  /\ lifespan' = [lifespan EXCEPT ![svc] =
       [pc |-> "waiting", client |-> singleton'[svc], entered |-> FALSE,
        exit |-> ""]]
  /\ UNCHANGED sessionVars

\* finally: if the global is not None: close what it holds, clear it.
\* `_client.close()` is a plain call; `await _redis.close()` may suspend
\* before the global is cleared.  `how` is what leaves the lifespan.
Finally(svc, how) ==
  IF singleton[svc] = None
    THEN /\ lifespan' = [lifespan EXCEPT ![svc] =
                           [@ EXCEPT !.pc = "out", !.exit = how]]
         /\ UNCHANGED <<singleton, clients>>
    ELSE /\ clients' = Close(clients, svc, singleton[svc])
         /\ IF svc = "redis"
              THEN /\ lifespan' = [lifespan EXCEPT ![svc] =
                                     [@ EXCEPT !.pc = "closing", !.exit = how]]
                   /\ UNCHANGED singleton
              ELSE /\ lifespan' = [lifespan EXCEPT ![svc] =
                                     [@ EXCEPT !.pc = "out", !.exit = how]]
                   /\ singleton' = [singleton EXCEPT ![svc] = None]

\* mutant: init_beanie is awaited before `try`, its error skips the cleanup
InitBeanie_NoCleanup(out) ==
  /\ lifespan["mongo"].pc = "init"
  /\ IF out = "ok"
       THEN /\ lifespan' = [lifespan EXCEPT !["mongo"] =
                              [@ EXCEPT !.pc = "scope", !.entered = TRUE]]
            /\ UNCHANGED <<singleton, clients>>
       ELSE /\ lifespan' = [lifespan EXCEPT !["mongo"] =
                              [@ EXCEPT !.pc = "out", !.exit = "InitError"]]
            /\ UNCHANGED <<singleton, clients>>
  /\ UNCHANGED <<sessionVars, wait>>

\* await init_beanie(...) inside `try`: it returns and the lifespan yields,
\* or it raises and the cleanup runs
InitBeanie(out) ==
  /\ lifespan["mongo"].pc = "init"
  /\ IF out = "ok"
       THEN /\ lifespan' = [lifespan EXCEPT !["mongo"] =
                              [@ EXCEPT !.pc = "scope", !.entered = TRUE]]
            /\ UNCHANGED <<singleton, clients>>
       ELSE Finally("mongo", "InitError")
  /\ UNCHANGED <<sessionVars, wait>>

\* the scoped block is left, normally or by an error raised inside it
LifespanExit(svc, how) ==
  /\ lifespan[svc].pc = "scope"
  /\ Finally(svc, how)
  /\ UNCHANGED <<sessionVars, wait>>

\* `await _redis.close()` has returned: _redis = None
LifespanClosed(svc) ==
  /\ lifespan[svc].pc = "closing"
  /\ singleton' = [singleton EXCEPT ![svc] = None]
  /\ lifespan' = [lifespan EXCEPT ![svc].pc = "out"]
  /\ UNCHANGED <<sessionVars, wait, clients>>

Accessor(svc) == IF svc = "redis" THEN "get_redis" ELSE "get_client"

\* mutant: the accessor hands out whatever the global holds
GetCall_NoCheck(svc) ==
  /\ ret' = Returned(Accessor(svc), singleton[svc])
  /\ UNCHANGED <<now, store, written, pending, singleton, lifespan, wait,
                 clients, log>>

\* get_client() / get_redis()
GetCall(svc) ==
  /\ ret' = IF singleton[svc] = None
              THEN NotInitialized(Accessor(svc))
              ELSE Returned(Accessor(svc), singleton[svc])
  /\ UNCHANGED <<now, store, written, pending, singleton, lifespan, wait,
                 clients, log>>

(***************************************************************************)
(* Authorization and authentication helpers (app/services).  `log` keeps   *)
(* every call made of them: the function, its arguments and what it        *)
(* returned.                                                               *)
(***************************************************************************)
RoleNames == {"ADMIN", "admin", "USER", "user"}

\* the role iterables offered: every list of at most two role names
RoleLists ==
  {<<>>} \cup {<<a>> : a \in RoleNames}
         \cup {<<a, b>> : a \in RoleNames, b \in RoleNames}

UserIds == {"u1", "u2"}

Plaintexts == {"", "secret"}

\* a digest that no call of hash_password produced
MalformedDigest == "not-a-bcrypt-hash"

has_role(user_roles, required_role) == FALSE

can_manage_user(actor_id, target_id, actor_roles) == FALSE

hash_password(plain_password) == ""

verify_password(plain_password, hashed_password) == FALSE

\* roles, expires_delta and extra_claims are not looked at
create_access_token(subject, roles) == ""

\* the dict {"key": "val"}
decode_access_token(token) == [f \in {"key"} |-> "val"]

\* a string that no call of create_access_token produced
MalformedToken == "not.a.jwt"

Applied(op, args, result) == [op |-> op, args |-> args, result |-> result]

\* the digests that hash_password has returned so far
Digests ==
  {log[n].result : n \in {m \in 1..Len(log) : log[m].op = "hash_password"}}

HasRoleCall(user_roles, required_role) ==
  /\ Len(log) < MaxCalls
  /\ LET result == PyBool(has_role(user_roles, required_role))
     IN  /\ log' = Append(log, Applied("has_role",
                                       <<user_roles, required_role>>, result))
         /\ ret' = Returned("has_role", result)
  /\ UNCHANGED <<now, store, written, pending, singleton, lifespan, wait,
                 clients>>

CanManageCall(actor_id, target_id, actor_roles) ==
  /\ Len(log) < MaxCalls
  /\ LET result == PyBool(can_manage_user(actor_id, target_id, actor_roles))
     IN  /\ log' = Append(log, Applied("can_manage_user",
                            <<actor_id, target_id, actor_roles>>, result))
         /\ ret' = Returned("can_manage_user", result)
  /\ UNCHANGED <<now, store, written, pending, singleton, lifespan, wait,
                 clients>>

HashCall(plain_password) ==
  /\ Len(log) < MaxCalls
  /\ LET result == hash_password(plain_password)
     IN  /\ log' = Append(log, Applied("hash_password",
                                       <<plain_password>>, result))
         /\ ret' = Returned("hash_password", result)
  /\ UNCHANGED <<now, store, written, pending, singleton, lifespan, wait,
                 clients>>

VerifyCall(plain_password, hashed_password) ==
  /\ Len(log) < MaxCalls
  /\ LET result == PyBool(verify_password(plain_password, hashed_password))
     IN  /\ log' = Append(log, Applied("verify_password",
                            <<plain_password, hashed_password>>, result))
         /\ ret' = Returned("verify_password", result)
  /\ UNCHANGED <<now, store, written, pending, singleton, lifespan, wait,
                 clients>>

\* the tokens that create_access_token has returned so far
Tokens ==
  {log[n].result :
     n \in {m \in 1..Len(log) : log[m].op = "create_access_token"}}

CreateTokenCall(subject, roles) ==
  /\ Len(log) < MaxCalls
  /\ LET result == create_access_token(subject, roles)
     IN  /\ log' = Append(log, Applied("create_access_token",
                                       <<subject, roles>>, result))
         /\ ret' = Returned("create_access_token", result)
  /\ UNCHANGED <<now, store, written, pending, singleton, lifespan, wait,
                 clients>>

DecodeTokenCall(token) ==
  /\ Len(log) < MaxCalls
  /\ LET result == decode_access_token(token)
     IN  /\ log' = Append(log, Applied("decode_access_token",
                                       <<token>>, result))
         /\ ret' = Returned("decode_access_token", result)
  /\ UNCHANGED <<now, store, written, pending, singleton, lifespan, wait,
                 clients>>

(***************************************************************************)
(* Specifications.                                                         *)
(***************************************************************************)
Init ==
  /\ now = 0
  /\ store = EmptyDict
  /\ written = EmptyDict
  /\ pending = [p \in Tasks |-> NoPending]
  /\ ret = NoCall
  /\ singleton = [svc \in Services |-> None]
  /\ lifespan = [svc \in Services |-> LifespanOut]
  /\ wait = [svc \in Services |-> WaitIdle]
  /\ clients = [svc \in Services |-> <<>>]
  /\ log = <<>>

\* The session store used by the tasks T with arguments from K, E and M,
\* against a server that answers its pings, in a process that runs its
\* lifespan once.
NextSession(T, K, E, M) ==
  \/ clients["redis"] = <<>> /\ LifespanStart("redis")
  \/ Probe("redis", "ok")
  \/ LifespanExit("redis", "normal")
  \/ LifespanClosed("redis")
  \/ \E p \in T, u \in Usernames, j \in Jtis, e \in E, k \in K, m \in M :
        StoreCall(p, u, j, e, k, m)
  \/ \E p \in T : StoreExec(p)
  \/ \E p \in T, u \in Usernames, j \in Jtis, k \in K :
        IsActiveCall(p, u, j, k)
  \/ \E p \in T, u \in Usernames, k \in K : RevokeCall(p, u, k)
  \/ Tick

\* one caller at a time on one key, with every meta
Spec == Init /\ [][NextSession({1}, {"access"}, Exps, Metas)]_vars

\* one caller at a time on the keys of both kinds
SpecKinds == Init /\ [][NextSession({1}, Kinds, {1}, {NoMeta})]_vars

\* concurrent callers racing for one key
SpecConcurrent ==
  Init /\ [][NextSession(Tasks, {"access"}, Exps, {NoMeta})]_vars

\* the commands of the tasks T failing, with arguments from K
NextFailures(T, K) ==
  \/ \E p \in T, applied \in BOOLEAN : StoreExecFails(p, applied)
  \/ \E p \in T, u \in Usernames, j \in Jtis, k \in K :
        IsActiveFails(p, u, j, k)
  \/ \E p \in T, u \in Usernames, k \in K, applied \in BOOLEAN :
        RevokeFails(p, u, k, applied)

\* one caller at a time on one key, against a server or a network that may
\* fail any command
SpecFailing ==
  Init /\ [][ \/ NextSession({1}, {"access"}, Exps, {NoMeta})
              \/ NextFailures({1}, {"access"}) ]_vars

\* (kind, username) arguments with the separator of the key inside them
KeyPairs == {<<"a", "b:c">>, <<"a:b", "c">>, <<"a", "c">>}

\* one caller at a time with the arguments of KeyPairs
NextKeys ==
  \/ clients["redis"] = <<>> /\ LifespanStart("redis")
  \/ Probe("redis", "ok")
  \/ LifespanExit("redis", "normal")
  \/ LifespanClosed("redis")
  \/ \E pr \in KeyPairs, j \in Jtis : StoreCall(1, pr[2], j, 1, pr[1], NoMeta)
  \/ StoreExec(1)
  \/ \E pr \in KeyPairs, j \in Jtis : IsActiveCall(1, pr[2], j, pr[1])
  \/ \E pr \in KeyPairs : RevokeCall(1, pr[2], pr[1])
  \/ Tick

SpecKeys == Init /\ [][NextKeys]_vars

\* The readiness loops called on a client, against any server.
NextWait ==
  \/ \E svc \in Services, a \in 0..MaxAttempts, q \in DelayQuarters :
        WaitCall(svc, a, q * (UnitsPerSec \div 4))
  \/ \E svc \in Services : \E out \in Outcomes(svc) : Probe(svc, out)
  \/ \E svc \in Services : Sleep(svc)
  \/ \E svc \in Services : Exhausted(svc)

SpecWait == Init /\ [][NextWait]_vars

\* The two lifespans, invoked one after another against servers that answer
\* or refuse, with the accessors called at any moment.
NextLifespan ==
  \/ \E svc \in Services : LifespanStart(svc)
  \/ \E svc \in Services : \E out \in {"ok", "raise"} : Probe(svc, out)
  \/ \E svc \in Services : Sleep(svc)
  \/ \E svc \in Services : Exhausted(svc)
  \/ \E out \in {"ok", "raise"} : InitBeanie(out)
  \/ \E svc \in Services : \E how \in {"normal", "BodyError"} :
        LifespanExit(svc, how)
  \/ LifespanClosed("redis")
  \/ \E svc \in Services : GetCall(svc)

SpecLifespan == Init /\ [][NextLifespan]_vars

\* The helpers of app/services applied to arguments of every shape.
NextAuth ==
  \/ \E roles \in RoleLists, r \in RoleNames : HasRoleCall(roles, r)
  \/ \E a \in UserIds, t \in UserIds, roles \in RoleLists :
        CanManageCall(a, t, roles)
  \/ \E p \in Plaintexts : HashCall(p)
  \/ \E p \in Plaintexts, h \in Digests \cup {MalformedDigest} :
        VerifyCall(p, h)
  \/ \E sub \in UserIds, roles \in RoleLists : CreateTokenCall(sub, roles)
  \/ \E token \in Tokens \cup {MalformedToken} : DecodeTokenCall(token)

SpecAuth == Init /\ [][NextAuth]_vars

TypeOK ==
  /\ now \in 0..MaxTime
  /\ DOMAIN written = DOMAIN store
  /\ \A svc \in Services :
       /\ singleton[svc] \in
            {None} \cup {Client(svc, n) : n \in 1..Len(clients[svc])}
       /\ Len(clients["mongo"]) + Len(clients["redis"]) <= MaxClients
       /\ lifespan[svc].pc \in
            {"out", "waiting", "init", "scope", "closing"}

(***************************************************************************)
(* Claims on the session store.                                            *)
(***************************************************************************)
Key(u, k) == "session:" \o k \o ":" \o u

\* the record at a key, <<>> when the key does not exist
Rec(db, key) == IF key \in DOMAIN db THEN <<db[key]>> ELSE <<>>

\* a record written over the record of a call with another jti
SecondStore(key) ==
  /\ key \in DOMAIN store
  /\ written[key].replaced # ""
  /\ written[key].replaced # written[key].jti

\* C1: when store_session_for_user(u, jti2, kind=k) has completed on top of
\* the record of store_session_for_user(u, jti1, kind=k), jti1 # jti2, with no
\* revoke or expiry since, is_user_session_active returns false for jti1 and
\* true for jti2.
C1_SecondStoreWins ==
  \A u \in Usernames, k \in Kinds :
    (SecondStore(Key(u, k)) /\ "jti" \notin DOMAIN written[Key(u, k)].meta)
      => /\ ~SessionActive(store, u, written[Key(u, k)].replaced, k)
         /\ SessionActive(store, u, written[Key(u, k)].jti, k)

C1_Witness ==
  /\ SecondStore(Key("alice", "access"))
  /\ written[Key("alice", "access")].meta = NoMeta
  /\ ret = Returned("store", "None")

\* C2: in every state reached by concurrent stores, revokes and expiries,
\* each (username, kind) has at most one jti that is_user_session_active
\* would accept.
C2_AtMostOneActive ==
  \A u \in Usernames, k \in Kinds :
    Cardinality({j \in Jtis : SessionActive(store, u, j, k)}) <= 1

C2_Witness ==
  /\ pending[1].op = "store"
  /\ pending[2].op = "store"
  /\ pending[1].key = pending[2].key
  /\ pending[1].jti # pending[2].jti
  /\ \E j \in Jtis : SessionActive(store, "alice", j, "access")

\* C3: once revoke_user_session(u, kind=k) has completed, no jti is active
\* for (u, k) until a store for that key is applied; the revoke returns
\* normally and changes nothing when the key does not exist.
C3_RevokeDeactivates ==
  [][ /\ \A p \in Tasks, u \in Usernames, k \in Kinds :
           (RevokeCall(p, u, k) /\ get_redis # None)
             => /\ ret'.result = "None"
                /\ \A j \in Jtis : ~SessionActive(store', u, j, k)
                /\ Key(u, k) \notin DOMAIN store => store' = store
      /\ \A u \in Usernames, k \in Kinds :
           ( /\ \A j \in Jtis : ~SessionActive(store, u, j, k)
             /\ ~ \E p \in Tasks :
                    StoreExec(p) /\ pending[p].key = Key(u, k) )
             => \A j \in Jtis : ~SessionActive(store', u, j, k)
    ]_vars

C3_Witness ==
  /\ ret = Returned("revoke", "None")
  /\ Key("alice", "access") \notin DOMAIN store
  /\ now > 0

\* C4: is_user_session_active(u, j, kind=k) returns true exactly when the key
\* of (k, u) exists and its jti field equals j, false when the key is absent,
\* and it leaves the store as it was.
C4_ActiveIffStoredJti ==
  [][ \A p \in Tasks, u \in Usernames, j \in Jtis, k \in Kinds :
        (IsActiveCall(p, u, j, k) /\ get_redis # None)
          => /\ ret'.result =
                  PyBool(/\ Key(u, k) \in DOMAIN store
                         /\ "jti" \in DOMAIN store[Key(u, k)].fields
                         /\ store[Key(u, k)].fields["jti"] = j)
             /\ store' = store
    ]_vars

C4_Witness ==
  /\ ret = Returned("is_active", "True")
  /\ Key("alice", "access") \in DOMAIN store

\* C5: no state shows a key that holds the jti of a store call without the
\* TTL that call set: every record has a TTL, and it is the one set together
\* with its fields.
C5_FieldsAndTtlTogether ==
  \A key \in DOMAIN store :
    /\ store[key].deadline # NoTTL
    /\ store[key].fields["jti"] = written[key].jti
         => store[key].deadline = written[key].until

C5_Witness ==
  /\ SecondStore(Key("alice", "access"))
  /\ \E p \in Tasks : pending[p].op = "store"
  /\ store[Key("alice", "access")].deadline > now + TicksPerSec

\* C6: store_session_for_user sets the TTL of the key to
\* max(1, exp_unix_ts - now) seconds, now being int(time.time()) as read
\* during the call.
C6_TtlIsClampedRemainder ==
  [][ \A p \in Tasks :
        /\ (pending[p] = NoPending /\ pending'[p] # NoPending)
             => pending'[p].ttl =
                  Max(1, pending'[p].exp - (now \div TicksPerSec))
        /\ StoreExec(p)
             => store'[pending[p].key].deadline - now =
                  Max(1, pending[p].exp - pending[p].read) * TicksPerSec
    ]_vars

C6_Witness ==
  /\ ret = Returned("store", "None")
  /\ Key("alice", "access") \in DOMAIN store
  /\ written[Key("alice", "access")].exp * TicksPerSec < now
  /\ store[Key("alice", "access")].deadline = now + TicksPerSec

\* C7 as stated: a jti stored with expiry exp is never active at a time
\* later than exp.
C7_NeverActiveAfterExp ==
  \A u \in Usernames, k \in Kinds :
    (Key(u, k) \in DOMAIN store
       /\ SessionActive(store, u, written[Key(u, k)].jti, k))
      => now <= written[Key(u, k)].exp * TicksPerSec

\* C7 as amended: a jti stored with expiry exp is never active once
\* max(1, exp - int(time read by the call)) seconds have passed since the
\* batch was applied.
C7_NeverActiveAfterTtl ==
  \A u \in Usernames, k \in Kinds :
    (Key(u, k) \in DOMAIN store
       /\ SessionActive(store, u, written[Key(u, k)].jti, k))
      => now < written[Key(u, k)].until

C7_Witness ==
  /\ Key("alice", "access") \in DOMAIN store
  /\ SessionActive(store, "alice", written[Key("alice", "access")].jti,
                   "access")
  /\ now > written[Key("alice", "access")].exp * TicksPerSec

\* C8 as stated: a record holds exactly the fields jti, exp and the keys of
\* the meta of the call that last wrote it.
C8_FieldsOfLastCallOnly ==
  \A key \in DOMAIN store :
    DOMAIN store[key].fields = {"jti", "exp"} \cup DOMAIN written[key].meta

\* C9: a store or a revoke for one kind leaves the record of the other kind
\* and what is_user_session_active returns for it unchanged, so a jti is
\* active under a kind only if a store put it there under that kind.
C9_KindsIndependent ==
  [][ /\ \A p \in Tasks, u \in Usernames, k \in Kinds :
           ( \/ RevokeCall(p, u, k)
             \/ StoreExec(p) /\ pending[p].username = u
                             /\ pending[p].kind = k )
             => \A k2 \in Kinds \ {k} :
                  /\ Rec(store', Key(u, k2)) = Rec(store, Key(u, k2))
                  /\ \A j \in Jtis : SessionActive(store', u, j, k2)
                                       = SessionActive(store, u, j, k2)
      /\ \A u \in Usernames, k \in Kinds, j \in Jtis :
           SessionActive(store', u, j, k)
             => written'[Key(u, k)].jti = j
    ]_vars

C9_Witness ==
  /\ ret = Returned("revoke", "None")
  /\ Key("alice", "access") \notin DOMAIN store
  /\ SessionActive(store, "alice", "j2", "refresh")
  /\ ~SessionActive(store, "alice", "j2", "access")

(***************************************************************************)
(* Claims on the readiness loops.                                          *)
(***************************************************************************)
\* a liveness probe succeeded: the ping of redis answered with a truthy
\* value, the ping of mongo returned
Alive(svc, out) == IF svc = "redis" THEN out = "ok" ELSE out \in {"ok", "falsy"}

Count(seq, x) == Cardinality({n \in 1..Len(seq) : seq[n] = x})

\* C10: in both loops, when the probe fails on its first k invocations and
\* succeeds on invocation k+1 <= attempts, the loop has returned and the
\* probe has been invoked exactly k+1 times: no probe and no sleep follows
\* the success.
C10_ReturnsAtFirstSuccess ==
  \A svc \in Services :
    LET w == wait[svc]
    IN  /\ \A n \in 1..Len(w.outs) :
             Alive(svc, w.outs[n])
               => /\ w.pc = "returned"
                  /\ Len(w.outs) = n
                  /\ n <= w.attempts
                  /\ Len(w.sleeps) = Count(w.outs, "raise")
        /\ w.pc = "failed" => \A n \in 1..Len(w.outs) : ~Alive(svc, w.outs[n])
        /\ w.pc = "returned" => Len(w.outs) >= 1 /\ Alive(svc, w.outs[Len(w.outs)])

C10_Witness ==
  /\ wait["redis"].pc = "returned"
  /\ wait["redis"].outs = <<"raise", "raise", "ok">>
  /\ wait["mongo"].pc = "returned"
  /\ wait["mongo"].outs = <<"raise", "ok">>

\* C11: in both loops and for every attempts value N, when no probe
\* succeeds the loop fails with NotReady after exactly N probes: it never
\* probes more than N times, it never fails before the N-th probe, and once N
\* probes have failed the only step left to it is the failure.
C11_FailsAfterExactlyN ==
  \A svc \in Services :
    LET w == wait[svc]
        never == \A n \in 1..Len(w.outs) : ~Alive(svc, w.outs[n])
    IN  /\ Len(w.outs) <= w.attempts
        /\ w.pc = "failed" => never /\ Len(w.outs) = w.attempts
        /\ (w.pc = "loop" /\ never /\ Len(w.outs) = w.attempts)
             => /\ ENABLED Exhausted(svc)
                /\ \A out \in Outcomes(svc) : ~ENABLED Probe(svc, out)

C11_Witness ==
  /\ wait["redis"].pc = "failed"
  /\ wait["redis"].outs = <<"raise", "falsy", "raise">>
  /\ wait["mongo"].pc = "failed"
  /\ wait["mongo"].outs = <<"raise", "raise", "raise">>

\* the last probe that raised, 0 when none did
LastRaise(outs) ==
  IF \E n \in 1..Len(outs) : outs[n] = "raise"
    THEN CHOOSE n \in 1..Len(outs) :
           /\ outs[n] = "raise"
           /\ \A m \in (n + 1)..Len(outs) : outs[m] # "raise"
    ELSE 0

\* C12 as stated: a loop that fails with NotReady has a cause, and it is the
\* error of its last failed probe.
C12_CauseIsLastProbeError ==
  \A svc \in Services :
    wait[svc].pc = "failed"
      => /\ wait[svc].last_exc # 0
         /\ wait[svc].last_exc = Len(wait[svc].outs)

\* C12 as amended: a loop that fails with NotReady has for cause the error of
\* the last probe that raised, and no cause when no probe raised.
C12_CauseIsLastRaisedError ==
  \A svc \in Services :
    wait[svc].pc = "failed"
      => wait[svc].last_exc = LastRaise(wait[svc].outs)

C12_Witness ==
  /\ wait["redis"].pc = "failed"
  /\ wait["redis"].outs = <<"raise", "raise", "falsy">>
  /\ wait["redis"].last_exc = 2
  /\ wait["mongo"].pc = "failed"
  /\ wait["mongo"].outs = <<>>

(***************************************************************************)
(* Claims on the lifespans and the accessors.                              *)
(***************************************************************************)
\* how often the client a lifespan constructed has been closed
Closed(svc) == clients[svc][ClientNo(svc, lifespan[svc].client)]

CleanedUp(svc) ==
  /\ lifespan[svc].pc = "out"
  /\ lifespan[svc].exit \in {"normal", "BodyError", "InitError"}

\* C13: when a lifespan whose probe succeeded has ended, by a failure of
\* init_beanie, by the normal end of its block or by an error raised in the
\* block, the client it constructed has been closed exactly once, the global
\* is None, and what left the lifespan is that error (or nothing); no client
\* is ever closed twice.
C13_CleanupOnEveryExit ==
  \A svc \in Services :
    /\ CleanedUp(svc)
         => /\ Closed(svc) = 1
            /\ singleton[svc] = None
            /\ wait[svc].pc = "returned"
            /\ lifespan[svc].exit = "InitError" <=> ~lifespan[svc].entered
    /\ lifespan[svc].pc = "closing" => Closed(svc) = 1
    /\ \A n \in 1..Len(clients[svc]) : clients[svc][n] <= 1

C13_Witness ==
  /\ lifespan["mongo"].pc = "out"
  /\ lifespan["mongo"].exit = "InitError"
  /\ lifespan["redis"].pc = "out"
  /\ lifespan["redis"].exit = "BodyError"

\* C14: when the readiness loop fails inside a lifespan, NotReady leaves the
\* lifespan, its block has not been entered, the client it constructed has
\* not been closed and the global still holds that client.
C14_ProbeFailureSkipsCleanup ==
  \A svc \in Services :
    /\ ~(lifespan[svc].pc = "waiting" /\ wait[svc].pc = "failed")
    /\ (lifespan[svc].pc = "out" /\ lifespan[svc].exit = "NotReady")
         => /\ wait[svc].pc = "failed"
            /\ ~lifespan[svc].entered
            /\ Closed(svc) = 0
            /\ singleton[svc] = lifespan[svc].client
            /\ singleton[svc] # None

C14_Witness ==
  /\ lifespan["mongo"].exit = "NotReady"
  /\ lifespan["redis"].exit = "NotReady"
  /\ Len(clients["redis"]) = 2

\* C15: get_client and get_redis raise NotInitialized when called before any
\* lifespan assigned the global and after a lifespan's cleanup, return the
\* client the lifespan constructed when called inside its block, and never
\* change the global.
C15_AccessorContract ==
  [][ \A svc \in Services :
        GetCall(svc)
          => /\ (clients[svc] = <<>> \/ CleanedUp(svc))
                  => ret' = NotInitialized(Accessor(svc))
             /\ lifespan[svc].pc = "scope"
                  => /\ ret' = Returned(Accessor(svc), lifespan[svc].client)
                     /\ Closed(svc) = 0
             /\ singleton' = singleton
    ]_vars

C15_Witness ==
  /\ ret = NotInitialized("get_client")
  /\ CleanedUp("mongo")
  /\ lifespan["redis"].pc = "scope"
  /\ Len(clients["redis"]) = 2

\* the client has passed its readiness probe and has not been closed
Established(svc) == lifespan[svc].pc \in {"init", "scope"}

\* C16 as stated: an accessor called while the client has not passed its
\* readiness probe (the loop still polling, or failed) or has been closed
\* raises NotInitialized.
C16_AccessorFailsOutsideWindow ==
  [][ \A svc \in Services :
        (GetCall(svc) /\ ~Established(svc))
          => ret' = NotInitialized(Accessor(svc))
    ]_vars

\* C17 as stated: each service has at most one client that was constructed
\* and is not closed.
C17_AtMostOneLiveClient ==
  \A svc \in Services :
    Cardinality({n \in 1..Len(clients[svc]) : clients[svc][n] = 0}) <= 1

(***************************************************************************)
(* Claims on the helpers of app/services.                                  *)
(***************************************************************************)
\* str.lower() on the role names in use
Lower(s) ==
  CASE s = "ADMIN" -> "admin"
    [] s = "USER" -> "user"
    [] OTHER -> s

SameRole(a, b) == Lower(a) = Lower(b)

\* C18 as stated: has_role(user_roles, required_role) is true exactly when
\* some element of user_roles equals required_role ignoring case.
C18_HasRoleIsMembership ==
  \A n \in 1..Len(log) :
    log[n].op = "has_role"
      => log[n].result =
           PyBool(\E m \in 1..Len(log[n].args[1]) :
                    SameRole(log[n].args[1][m], log[n].args[2]))

\* C19 as stated: can_manage_user(actor_id, target_id, actor_roles) is true
\* when some role of actor_roles is "ADMIN" ignoring case, and otherwise
\* exactly when actor_id = target_id.
C19_AdminOrSelf ==
  \A n \in 1..Len(log) :
    log[n].op = "can_manage_user"
      => log[n].result =
           PyBool(\/ \E m \in 1..Len(log[n].args[3]) :
                       SameRole(log[n].args[3][m], "ADMIN")
                  \/ log[n].args[1] = log[n].args[2])

\* C20 as stated: verify_password(p, d) is true for every digest d that
\* hash_password(p) returned, and two calls of hash_password(p) return
\* different digests.
C20_HashVerifies ==
  \A n \in 1..Len(log), m \in 1..Len(log) :
    (n < m /\ log[n].op = "hash_password")
      => /\ ( /\ log[m].op = "verify_password"
              /\ log[m].args = <<log[n].args[1], log[n].result>> )
              => log[m].result = "True"
         /\ ( /\ log[m].op = "hash_password"
              /\ log[m].args = log[n].args )
              => log[m].result # log[n].result

\* C21 as stated: decode_access_token applied to the token that
\* create_access_token(s, roles=r) returned gives claims whose subject is s
\* and whose roles is the sequence r.
C21_TokenRoundTrip ==
  \A n \in 1..Len(log), m \in 1..Len(log) :
    ( /\ n < m
      /\ log[n].op = "create_access_token"
      /\ log[m].op = "decode_access_token"
      /\ log[m].args = <<log[n].result>> )
      => /\ {"sub", "roles"} \subseteq DOMAIN log[m].result
         /\ log[m].result["sub"] = log[n].args[1]
         /\ log[m].result["roles"] = log[n].args[2]

(***************************************************************************)
(* Claims on the back-off of the readiness loops.                          *)
(***************************************************************************)
ThreeSeconds == 3 * UnitsPerSec

\* 3^n / 2^n of d, for the delays in use an exact division
RECURSIVE Grown(_, _)
Grown(d, n) == IF n = 0 THEN d ELSE (Grown(d, n - 1) * 3) \div 2

\* the delay before the k-th sleep of a loop called with delay d
KthDelay(svc, d, k) ==
  IF svc = "redis" /\ k > 1 /\ Grown(d, k - 1) > ThreeSeconds
    THEN ThreeSeconds
    ELSE Grown(d, k - 1)

\* the probes made so far that did not succeed
Failures(svc) ==
  Cardinality({n \in 1..Len(wait[svc].outs) : ~Alive(svc, wait[svc].outs[n])})

\* the loop is between iterations or has ended: no sleep is owed
Settled(svc) == wait[svc].pc \in {"loop", "returned", "failed"}

\* C22 as stated: in both loops every probe that did not succeed, whether it
\* raised or returned a not-alive result, has been followed by a sleep before
\* the next probe, the k-th sleep lasting the initial delay times 1.5^(k-1),
\* capped at 3.0 s for the key-value store.
C22_SleepAfterEveryFailure ==
  \A svc \in Services :
    /\ ( \/ wait[svc].pc = "returned"
         \/ wait[svc].pc = "loop" /\ wait[svc].i < wait[svc].attempts )
         => Len(wait[svc].sleeps) = Failures(svc)
    /\ \A k \in 1..Len(wait[svc].sleeps) :
         wait[svc].sleeps[k] = KthDelay(svc, wait[svc].delay0, k)

\* C23 as stated: no sleep of _wait_for_redis is longer than 3.0 s, whatever
\* the initial delay.
C23_NoSleepOverThreeSeconds ==
  \A k \in 1..Len(wait["redis"].sleeps) :
    wait["redis"].sleeps[k] <= ThreeSeconds

\* C23 as amended: the first sleep of _wait_for_redis lasts the initial
\* delay, and no later sleep is longer than 3.0 s; so no sleep is longer than
\* 3.0 s when the initial delay is not.
C23_NoLaterSleepOverThreeSeconds ==
  LET w == wait["redis"]
  IN  \A k \in 1..Len(w.sleeps) :
        /\ k = 1 => w.sleeps[k] = w.delay0
        /\ k > 1 => w.sleeps[k] <= ThreeSeconds
        /\ w.delay0 <= ThreeSeconds => w.sleeps[k] <= ThreeSeconds

C23_Witness ==
  /\ wait["redis"].delay0 = 2 * UnitsPerSec
  /\ wait["redis"].sleeps =
       <<2 * UnitsPerSec, ThreeSeconds, ThreeSeconds>>

\* C29: in both loops a sleep follows every probe that raised, the last one
\* included: when all N probes raise, NotReady is raised after N sleeps; the
\* number of sleeps is the number of probes that raised; and the k-th sleep
\* of the document-store loop lasts the initial delay times 1.5^(k-1),
\* without a cap.
C29_SleepAfterEveryRaise ==
  \A svc \in Services :
    LET w == wait[svc]
    IN  /\ Settled(svc) => Len(w.sleeps) = Count(w.outs, "raise")
        /\ w.pc = "sleep" => Len(w.sleeps) + 1 = Count(w.outs, "raise")
        /\ (w.pc = "failed" /\ Count(w.outs, "raise") = w.attempts)
             => Len(w.sleeps) = w.attempts
        /\ svc = "mongo"
             => \A k \in 1..Len(w.sleeps) : w.sleeps[k] = Grown(w.delay0, k - 1)

C29_Witness ==
  /\ wait["mongo"].pc = "failed"
  /\ wait["mongo"].sleeps =
       <<2 * UnitsPerSec, 3 * UnitsPerSec, (9 * UnitsPerSec) \div 2>>
  /\ wait["redis"].pc = "failed"
  /\ wait["redis"].outs = <<"raise", "raise", "raise">>
  /\ Len(wait["redis"].sleeps) = 3

(***************************************************************************)
(* Claims on the order of the steps of a lifespan.                         *)
(***************************************************************************)
\* this step enters the scoped block of the lifespan of svc
Enters(svc) == ~lifespan[svc].entered /\ lifespan'[svc].entered

\* this step calls close on a client of svc
Closes(svc) ==
  \E n \in 1..Len(clients[svc]) : clients'[svc][n] > clients[svc][n]

\* the block is entered by a step that ends the readiness loop with a probe
\* that succeeded or follows it, and for mongo by the return of init_beanie
EntersInOrder(svc) ==
  Enters(svc)
    => /\ wait'[svc].pc = "returned"
       /\ Alive(svc, wait'[svc].outs[Len(wait'[svc].outs)])
       /\ svc = "mongo" => lifespan[svc].pc = "init" /\ InitBeanie("ok")

\* this step leaves the scoped block that was entered
Leaves(svc) ==
  /\ lifespan[svc].entered
  /\ lifespan[svc].pc = "scope"
  /\ lifespan'[svc].pc # "scope"

\* C24 as stated: the scoped block is entered only after the readiness probe
\* has succeeded, for mongo only after init_beanie has succeeded too, and a
\* client is closed only once the block has been left.
C24_CloseOnlyAfterBlock ==
  [][ \A svc \in Services :
        /\ EntersInOrder(svc)
        /\ Closes(svc) => Leaves(svc)
    ]_vars

\* C24 as amended: as stated, except that the client of the document store
\* is also closed, without the block having been entered, when init_beanie
\* fails.
C24_CloseAfterBlockOrInitFailure ==
  [][ \A svc \in Services :
        /\ EntersInOrder(svc)
        /\ Closes(svc)
             => \/ Leaves(svc)
                \/ /\ svc = "mongo"
                   /\ ~lifespan[svc].entered
                   /\ lifespan[svc].pc = "init"
                   /\ InitBeanie("raise")
        /\ lifespan[svc].pc = "scope" => Closed(svc) = 0
    ]_vars

C24_Witness ==
  /\ lifespan["mongo"].pc = "scope"
  /\ lifespan["mongo"].entered
  /\ lifespan["redis"].pc = "closing"
  /\ lifespan["redis"].entered
  /\ Closed("redis") = 1

(***************************************************************************)
(* Claims on failing commands.                                             *)
(***************************************************************************)
\* db2 is db after one whole application of the batch of the call c at t
OneApplication(db, db2, c, t) ==
  /\ DOMAIN db2 = DOMAIN db \cup {Key(c.username, c.kind)}
  /\ \A k \in DOMAIN db \ {Key(c.username, c.kind)} : db2[k] = db[k]
  /\ LET r == db2[Key(c.username, c.kind)]
     IN  /\ r.fields["jti"] = c.payload["jti"]
         /\ r.fields["exp"] = c.payload["exp"]
         /\ r.deadline = t + c.ttl * TicksPerSec

\* the error has left the call of task p and nothing of the call is left
FailedOnce(p, op) ==
  /\ ret' = Returned(op, "RedisError")
  /\ pending'[p] = NoPending

\* C25 as stated: a session store command that fails is not retried: the
\* error leaves the call after the one attempt, and the store is as it was
\* before the call.
C25_FailureLeavesRecord ==
  [][ \A p \in Tasks, applied \in BOOLEAN :
        /\ StoreExecFails(p, applied)
             => FailedOnce(p, "store") /\ store' = store
        /\ \A u \in Usernames, k \in Kinds :
             RevokeFails(p, u, k, applied)
               => FailedOnce(p, "revoke") /\ store' = store
        /\ \A u \in Usernames, k \in Kinds, j \in Jtis :
             IsActiveFails(p, u, j, k)
               => FailedOnce(p, "is_active") /\ store' = store
    ]_vars

\* C25 as amended: a session store command that fails is not retried: the
\* error leaves the call after the one attempt, and the store is as it was
\* before the call or as one whole execution of the command leaves it.
C25_FailureIsAtomic ==
  [][ \A p \in Tasks, applied \in BOOLEAN :
        /\ StoreExecFails(p, applied)
             => /\ FailedOnce(p, "store")
                /\ \/ store' = store
                   \/ OneApplication(store, store', pending[p], now)
        /\ \A u \in Usernames, k \in Kinds :
             RevokeFails(p, u, k, applied)
               => /\ FailedOnce(p, "revoke")
                  /\ \/ store' = store
                     \/ store' = [x \in DOMAIN store \ {Key(u, k)} |-> store[x]]
        /\ \A u \in Usernames, k \in Kinds, j \in Jtis :
             IsActiveFails(p, u, j, k)
               => FailedOnce(p, "is_active") /\ store' = store
    ]_vars

C25_Witness ==
  /\ ret = Returned("store", "RedisError")
  /\ pending[1] = NoPending
  /\ SecondStore(Key("alice", "access"))

(***************************************************************************)
(* Claims on the key and the fields of a record.                           *)
(***************************************************************************)
\* C26 as stated: different (kind, username) pairs have different keys, so a
\* store or a revoke for one pair leaves what is_user_session_active returns
\* for every other pair unchanged.
C26_KeyInjective ==
  [][ \A pr \in KeyPairs, pr2 \in KeyPairs :
        pr # pr2
          => /\ _session_key(pr[1], pr[2]) # _session_key(pr2[1], pr2[2])
             /\ ( \/ RevokeCall(1, pr[2], pr[1])
                  \/ /\ StoreExec(1)
                     /\ pending[1].username = pr[2]
                     /\ pending[1].kind = pr[1] )
                  => \A j \in Jtis :
                       SessionActive(store', pr2[2], j, pr2[1])
                         = SessionActive(store, pr2[2], j, pr2[1])
    ]_vars

\* C27 as stated: when a store call completes, the record's jti field is
\* the call's jti and its exp field is str(exp_unix_ts), whatever the meta
\* mapping, and is_user_session_active is true for the call's arguments.
C27_MetaKeepsJtiAndExp ==
  [][ \A p \in Tasks :
        (StoreExec(p) /\ pending[p].key \in DOMAIN store')
          => LET c == pending[p]
             IN  /\ store'[c.key].fields["jti"] = c.jti
                 /\ store'[c.key].fields["exp"] = StrInt(c.exp)
                 /\ SessionActive(store', c.username, c.jti, c.kind)
    ]_vars

\* C28: with store calls for the same (username, kind) in flight together,
\* the jti, the exp and the TTL of the record always come from one and the
\* same call, the one whose transaction was applied last; no state mixes the
\* jti of one call with the exp or the TTL of another.
C28_RecordFromOneCall ==
  \A key \in DOMAIN store :
    /\ key \in DOMAIN written
    /\ {"jti", "exp"} \subseteq DOMAIN store[key].fields
    /\ <<store[key].fields["jti"], store[key].fields["exp"], store[key].deadline>>
         = <<written[key].jti, StrInt(written[key].exp), written[key].until>>

\* the record of one call replaced that of another while a third call with
\* another jti and another exp is still in flight
C28_Witness ==
  LET key == Key("alice", "access")
  IN  /\ key \in DOMAIN store
      /\ written[key].replaced \notin {"", written[key].jti}
      /\ \E p \in Tasks :
           /\ pending[p].op = "store"
           /\ pending[p].key = key
           /\ pending[p].jti # written[key].jti
           /\ pending[p].exp # written[key].exp
           /\ pending[p].read < IntTime(now)

(***************************************************************************)
(* Claims on the utilities outside the lifetime of the client.             *)
(***************************************************************************)
\* C30: called while the singleton is unset, store_session_for_user,
\* is_user_session_active and revoke_user_session fail with NotInitialized
\* and send no command: nothing is queued and every record stays as it was.
C30_UnsetSingletonFailsFirst ==
  [][ get_redis = None
        => \A p \in Tasks, u \in Usernames, k \in Kinds, j \in Jtis :
             /\ (\E e \in Exps, m \in Metas : StoreCall(p, u, j, e, k, m))
                  => /\ ret' = NotInitialized("store")
                     /\ pending' = pending
                     /\ store' = store
             /\ IsActiveCall(p, u, j, k)
                  => /\ ret' = NotInitialized("is_active")
                     /\ pending' = pending
                     /\ store' = store
             /\ RevokeCall(p, u, k)
                  => /\ ret' = NotInitialized("revoke")
                     /\ pending' = pending
                     /\ store' = store
    ]_vars

\* revoke was refused after the cleanup of the lifespan while the record of
\* an earlier store is still in the store
C30_Witness ==
  /\ get_redis = None
  /\ lifespan["redis"].exit = "normal"
  /\ ret = NotInitialized("revoke")
  /\ Key("alice", "access") \in DOMAIN store

====
